---- MODULE Spec2Model ----
(***************************************************************************)
(* Model of scripts/generate_charts.py: parse_results (the line-oriented   *)
(* report parser) and the two renderers generate_matplotlib_charts and     *)
(* generate_text_charts.                                                   *)
(*                                                                         *)
(* A line of text is a sequence of atoms.  An atom is a maximal lexical    *)
(* unit of the line: a word ("Rust", "t1", "1000", "abc"), a colon ":",    *)
(* a single blank " ", or a punctuation mark ("#").  Two word atoms are    *)
(* never adjacent in a line (they would be one word).  Python dicts are    *)
(* functions; a missing key is a value outside the function's DOMAIN.      *)
(***************************************************************************)
EXTENDS Integers, Sequences, FiniteSets, TLC

VARIABLES
    lines,            \* the lines of the file consumed so far by the for loop
    current_section,  \* None, "startup", "correction" or "memory"
    current_test,     \* Unbound until the first matching "Test:" line
    startup,          \* results["startup"]
    correction,       \* results["correction"]
    memory,           \* results["memory"]
    metadata,         \* results["metadata"]
    status,           \* "parsing", "returned", "error", "rendered", "render_error"
    error,            \* the exception that ended the run, or "none"
    artifacts,        \* the files written to output_dir
    chart             \* what the renderer drew (callouts, radar axes, glyph bars)

vars == <<lines, current_section, current_test, startup, correction, memory,
          metadata, status, error, artifacts, chart>>

parserVars == <<lines, current_section, current_test, startup, correction,
                memory, metadata>>

(***************************************************************************)
(* Bounds of the model.                                                    *)
(***************************************************************************)
MaxLines == 4
MaxBlockLines == 7

None == "None"
Unbound == "<unbound>"
EmptyDict == [k \in {} |-> 0]

Min(S) == CHOOSE x \in S : \A y \in S : x <= y
Max(S) == CHOOSE x \in S : \A y \in S : x >= y

(***************************************************************************)
(* String primitives used by parse_results.                                *)
(***************************************************************************)
\* str.strip(): drop the leading and trailing blanks.
Strip(s) ==
    LET I == {i \in 1..Len(s) : s[i] # " "}
    IN  IF I = {} THEN <<>> ELSE SubSeq(s, Min(I), Max(I))

\* str.startswith(p)
StartsWith(s, p) == Len(s) >= Len(p) /\ SubSeq(s, 1, Len(p)) = p

\* str.find(p) + 1: the first position where p occurs in s, 0 when it does not.
Find(s, p) ==
    LET I == {i \in 1..(Len(s) - Len(p) + 1) : SubSeq(s, i, i + Len(p) - 1) = p}
    IN  IF I = {} THEN 0 ELSE Min(I)

\* p in s
Contains(s, p) == Find(s, p) # 0

\* s.split(p, 1)[1]: everything after the first occurrence of p.
SplitRest(s, p) == SubSeq(s, Find(s, p) + Len(p), Len(s))

\* s.split(p)[1]: from the first occurrence of p to the next one (or the end).
SplitSecond(s, p) ==
    LET a == SplitRest(s, p)
    IN  IF Contains(a, p) THEN SubSeq(a, 1, Find(a, p) - 1) ELSE a

\* s.strip().split(): the whitespace-delimited tokens; only [0] is used.
\* <<>> stands for the empty list, whose [0] raises IndexError.
FirstToken(s) ==
    LET t == Strip(s)
        k == Find(t, <<" ">>)
    IN  IF k = 0 THEN t ELSE SubSeq(t, 1, k - 1)

(***************************************************************************)
(* Lexical classes.                                                        *)
(***************************************************************************)
\* Atoms that are not made of word characters (\w).
NonWord == {":", " ", "#", "-"}
IsWord(a) == a \notin NonWord

\* The decimal numerals of the model and the number each denotes.
Numerals == {"0", "10", "500", "1000", "2000", "2024"}
NumeralValue(a) ==
    CASE a = "0" -> 0
      [] a = "10" -> 10
      [] a = "500" -> 500
      [] a = "1000" -> 1000
      [] a = "2000" -> 2000
      [] a = "2024" -> 2024

\* float(value) succeeds on a numeral, optionally signed; anything else raises
\* ValueError.
IsFloat(tok) ==
    \/ Len(tok) = 1 /\ tok[1] \in Numerals
    \/ Len(tok) = 2 /\ tok[1] = "-" /\ tok[2] \in Numerals
Float(tok) == IF Len(tok) = 1 THEN NumeralValue(tok[1]) ELSE 0 - NumeralValue(tok[2])

\* d[k] = v
Put(d, k, v) == [x \in DOMAIN d \cup {k} |-> IF x = k THEN v ELSE d[x]]

(***************************************************************************)
(* parse_results: the state of the loop and one iteration of it.           *)
(***************************************************************************)
\* current_test is not assigned before the loop: it is an unbound local.
InitialTestDefault == "default"
InitialTest == Unbound

InitialState ==
    [section |-> None, test |-> InitialTest, startup |-> EmptyDict,
     correction |-> EmptyDict, memory |-> EmptyDict, metadata |-> EmptyDict,
     error |-> "none"]

\* A line no branch of the if/elif chain acts on.
IgnoreClearsSection(st) == [st EXCEPT !.section = None]
Ignore(st) == st

\* current_section = "..."
EnterSectionResetsTest(st, sec) == [st EXCEPT !.section = sec, !.test = Unbound]
EnterSection(st, sec) == [st EXCEPT !.section = sec]

\* re.match(r"Test: (\w+)", line); if match: current_test = match.group(1)
TestMarker(st, line) ==
    IF StartsWith(line, <<"Test", ":", " ">>) /\ Len(line) >= 4 /\ IsWord(line[4])
    THEN [st EXCEPT !.test = line[4]]
    ELSE st

\* float(value) raising ValueError.
FloatErrorSkipsLine(st) == st
FloatError(st) == [st EXCEPT !.error = "ValueError"]

\* results[section][label] = float(value), section being startup or memory.
StoreSection(st, sec, label, tok) ==
    IF ~IsFloat(tok) THEN FloatError(st)
    ELSE IF sec = "startup"
         THEN [st EXCEPT !.startup = Put(st.startup, label, Float(tok))]
         ELSE [st EXCEPT !.memory = Put(st.memory, label, Float(tok))]

\* if "corrections" not in results["correction"]: results["correction"]["corrections"] = {}
\* results["correction"]["corrections"].setdefault(current_test, {})[label] = float(value)
\* The right-hand side is evaluated first, then current_test is read.
StoreCorrectionReplacesEntry(st, label, tok) ==
    LET made == IF "corrections" \in DOMAIN st.correction
                THEN st.correction ELSE "corrections" :> EmptyDict
        stm == [st EXCEPT !.correction = made]
    IN  IF ~IsFloat(tok) THEN FloatError(stm)
        ELSE IF st.test = Unbound THEN [stm EXCEPT !.error = "UnboundLocalError"]
        ELSE [st EXCEPT !.correction = "corrections" :>
                 Put(made["corrections"], st.test, label :> Float(tok))]
StoreCorrection(st, label, tok) ==
    LET made == IF "corrections" \in DOMAIN st.correction
                THEN st.correction ELSE "corrections" :> EmptyDict
        stm == [st EXCEPT !.correction = made]
    IN  IF ~IsFloat(tok) THEN FloatError(stm)
        ELSE IF st.test = Unbound THEN [stm EXCEPT !.error = "UnboundLocalError"]
        ELSE LET corr == made["corrections"]
                 entry == IF st.test \in DOMAIN corr THEN corr[st.test] ELSE EmptyDict
             IN  [st EXCEPT !.correction = "corrections" :>
                     Put(corr, st.test, Put(entry, label, Float(tok)))]

\* The branch of a line that starts with "Rust:" or "Python:".
Anchored(st, line, label) ==
    LET tok == FirstToken(SplitSecond(line, <<":">>))
    IN  IF tok = <<>> THEN [st EXCEPT !.error = "IndexError"]
        ELSE IF st.section = "correction" THEN StoreCorrection(st, label, tok)
        ELSE StoreSection(st, st.section, label, tok)

\* The branch of a line that holds "Rust:" or "Python:" further in.
Fallback(st, line, word, label) ==
    LET tok == FirstToken(SplitSecond(line, <<word, ":">>))
    IN  IF tok = <<>> THEN [st EXCEPT !.error = "IndexError"]
        ELSE StoreCorrection(st, label, tok)

\* One iteration of the for loop on the raw line.
ParseStep(st, raw) ==
    LET line == Strip(raw)
    IN  IF StartsWith(line, <<"Date", ":">>)
        THEN [st EXCEPT !.metadata =
                 Put(st.metadata, "date", Strip(SplitRest(line, <<":">>)))]
        ELSE IF StartsWith(line, <<"Iterations", ":">>)
        THEN [st EXCEPT !.metadata =
                 Put(st.metadata, "iterations", Strip(SplitRest(line, <<":">>)))]
        ELSE IF line = <<"STARTUP", " ", "TIME">> THEN EnterSection(st, "startup")
        ELSE IF line = <<"CORRECTION", " ", "TIME">> THEN EnterSection(st, "correction")
        ELSE IF line = <<"MEMORY", " ", "USAGE">> THEN EnterSection(st, "memory")
        ELSE IF StartsWith(line, <<"Test", ":">>) THEN TestMarker(st, line)
        ELSE IF st.section # None
        THEN IF StartsWith(line, <<"Rust", ":">>) THEN Anchored(st, line, "rust")
             ELSE IF StartsWith(line, <<"Python", ":">>) THEN Anchored(st, line, "python")
             ELSE IF Contains(line, <<"Rust", ":">>) THEN Fallback(st, line, "Rust", "rust")
             ELSE IF Contains(line, <<"Python", ":">>)
                  THEN Fallback(st, line, "Python", "python")
             ELSE Ignore(st)
        ELSE Ignore(st)

\* The loop's state as a record.
State ==
    [section |-> current_section, test |-> current_test, startup |-> startup,
     correction |-> correction, memory |-> memory, metadata |-> metadata,
     error |-> error]

\* The report files the model reads lines from.
Lines ==
    { <<>>,
      <<"#", " ", "x">>,
      <<"Date", ":", " ", "2024">>,
      <<"STARTUP", " ", "TIME">>,
      <<"CORRECTION", " ", "TIME">>,
      <<"MEMORY", " ", "USAGE">>,
      <<"Test", ":", " ", "t1">>,
      <<"Test", ":", " ", "t2">>,
      <<"Test", ":", "t1">>,
      <<" ", " ", "Rust", ":", " ", "1000", " ", "us">>,
      <<"Python", ":", " ", "2000", " ", "us">>,
      <<"Rust", ":", " ", "abc">>,
      <<"x", " ", "Rust", ":", " ", "500">>,
      <<"x", " ", "Python", ":", " ", "abc">> }

NoChart == [renderer |-> None]

Init ==
    /\ lines = <<>>
    /\ current_section = InitialState.section
    /\ current_test = InitialState.test
    /\ startup = InitialState.startup
    /\ correction = InitialState.correction
    /\ memory = InitialState.memory
    /\ metadata = InitialState.metadata
    /\ status = "parsing"
    /\ error = "none"
    /\ artifacts = {}
    /\ chart = NoChart

\* for line in lines: one iteration; an exception ends parse_results.
ReadLine(raw) ==
    /\ status = "parsing"
    /\ LET st == ParseStep(State, raw)
       IN  /\ lines' = Append(lines, raw)
           /\ current_section' = st.section
           /\ current_test' = st.test
           /\ startup' = st.startup
           /\ correction' = st.correction
           /\ memory' = st.memory
           /\ metadata' = st.metadata
           /\ error' = st.error
           /\ status' = IF st.error = "none" THEN "parsing" ELSE "error"
    /\ UNCHANGED <<artifacts, chart>>

\* return results
Return ==
    /\ status = "parsing"
    /\ status' = "returned"
    /\ UNCHANGED <<parserVars, error, artifacts, chart>>

ReadNext == \E raw \in Lines : Len(lines) < MaxLines /\ ReadLine(raw)

Next == ReadNext \/ Return

Spec == Init /\ [][Next]_vars

(***************************************************************************)
(* Vocabulary of the properties: classes of lines as the specification     *)
(* names them, and the step that consumes a line.                          *)
(***************************************************************************)
\* The step consumes one more line of the file.
Consumes == status = "parsing" /\ Len(lines') = Len(lines) + 1
\* The stripped line that step consumes.
Consumed == Strip(lines'[Len(lines')])

IsMetadataLine(line) ==
    StartsWith(line, <<"Date", ":">>) \/ StartsWith(line, <<"Iterations", ":">>)
IsHeaderLine(line) ==
    line \in {<<"STARTUP", " ", "TIME">>, <<"CORRECTION", " ", "TIME">>,
              <<"MEMORY", " ", "USAGE">>}
IsTestLine(line) == StartsWith(line, <<"Test", ":">>)
\* A "Test:" marker followed by one blank and a word token.
IsNamedTestLine(line) ==
    StartsWith(line, <<"Test", ":", " ">>) /\ Len(line) >= 4 /\ IsWord(line[4])
HasLabel(line) == Contains(line, <<"Rust", ":">>) \/ Contains(line, <<"Python", ":">>)
IsAnchoredLine(line) ==
    StartsWith(line, <<"Rust", ":">>) \/ StartsWith(line, <<"Python", ":">>)
\* A line that reaches the label rule: no metadata, header or Test: line.
IsLabelLine(line) ==
    /\ ~IsMetadataLine(line) /\ ~IsHeaderLine(line) /\ ~IsTestLine(line)
    /\ HasLabel(line)
\* The label a label line carries, by the rule's priority.
LabelOf(line) ==
    IF StartsWith(line, <<"Rust", ":">>) THEN "rust"
    ELSE IF StartsWith(line, <<"Python", ":">>) THEN "python"
    ELSE IF Contains(line, <<"Rust", ":">>) THEN "rust"
    ELSE "python"
\* The first whitespace-delimited token after the label's colon.
TokenOf(line) ==
    IF IsAnchoredLine(line) THEN FirstToken(SplitSecond(line, <<":">>))
    ELSE IF Contains(line, <<"Rust", ":">>)
         THEN FirstToken(SplitSecond(line, <<"Rust", ":">>))
         ELSE FirstToken(SplitSecond(line, <<"Python", ":">>))
\* A line that is none of: metadata, section header, Test: marker, label line.
IsUnrecognized(raw) ==
    LET line == Strip(raw)
    IN  ~IsMetadataLine(line) /\ ~IsHeaderLine(line) /\ ~IsTestLine(line)
        /\ ~HasLabel(line)
IsRecognized(raw) == ~IsUnrecognized(raw)

\* The positions of the consumed lines that satisfy P, and the last of them.
LastHeader ==
    Max({0} \cup {i \in 1..Len(lines) : IsHeaderLine(Strip(lines[i]))})
LastNamedTest ==
    Max({0} \cup {i \in 1..Len(lines) : IsNamedTestLine(Strip(lines[i]))})

\* The test-case mapping, empty while results["correction"] has no "corrections".
CorrectionsOf(c) == IF "corrections" \in DOMAIN c THEN c["corrections"] ELSE EmptyDict

\* The loop run from the start over a sequence of lines; it stops at an error.
RECURSIVE RunFrom(_, _)
RunFrom(st, seq) ==
    IF seq = <<>> \/ st.error # "none" THEN st
    ELSE RunFrom(ParseStep(st, Head(seq)), Tail(seq))

(***************************************************************************)
(* C4: in the startup or memory section, a line that carries a label, a    *)
(* colon and a numeric token (anchored at the line start or anywhere in    *)
(* the line) stores the value under the label in that section's mapping    *)
(* and leaves correction.corrections unchanged.                            *)
(***************************************************************************)
C4_LabelStoredInSection ==
    [][ (/\ Consumes
         /\ current_section \in {"startup", "memory"}
         /\ IsLabelLine(Consumed)
         /\ TokenOf(Consumed) # <<>>
         /\ IsFloat(TokenOf(Consumed)))
        => (/\ correction' = correction
            /\ LET m == IF current_section = "startup" THEN startup' ELSE memory'
               IN  /\ LabelOf(Consumed) \in DOMAIN m
                   /\ m[LabelOf(Consumed)] = Float(TokenOf(Consumed))) ]_vars

(***************************************************************************)
(* C5 (as stated): once a section header has been processed, no later      *)
(* timing line is recorded under a test name that was set before that      *)
(* header.                                                                 *)
(***************************************************************************)
C5_NoStaleTestName ==
    [][ (Consumes /\ status' = "parsing" /\ correction' # correction)
        => LastNamedTest > LastHeader ]_vars

(***************************************************************************)
(* C5 (amended): the pending test name changes only when a "Test:" marker  *)
(* with a word-token name is processed, and then becomes that name; a      *)
(* section header leaves it as it is, and every timing line recorded into  *)
(* correction.corrections goes under the pending name, whether that name   *)
(* was set before or after the last header.                                *)
(***************************************************************************)
C5_TestNameUntilNextMarker ==
    [][ Consumes =>
        /\ (IsNamedTestLine(Consumed) => current_test' = Consumed[4])
        /\ (~IsNamedTestLine(Consumed) => current_test' = current_test)
        /\ (status' = "parsing" /\ correction' # correction
              => /\ current_test # Unbound
                 /\ \A t \in DOMAIN CorrectionsOf(correction') :
                        t # current_test =>
                          /\ t \in DOMAIN CorrectionsOf(correction)
                          /\ CorrectionsOf(correction')[t] = CorrectionsOf(correction)[t]) ]_vars

\* A timing line was recorded under t1 although t1 was set before the header.
C5_Witness ==
    /\ lines = << <<"Test", ":", " ", "t1">>, <<"CORRECTION", " ", "TIME">>,
                  <<" ", " ", "Rust", ":", " ", "1000", " ", "us">> >>
    /\ correction = "corrections" :> ("t1" :> ("rust" :> 1000))
    /\ status = "returned"

(***************************************************************************)
(* C7: a label line in an active section whose value token is not a valid  *)
(* number ends the parse with a ValueError at that line: no later line is  *)
(* processed and no Report is returned.                                    *)
(***************************************************************************)
C7_BadNumberFails ==
    [][ /\ status # "error"
        /\ (status' = "returned" => error' = "none")
        /\ (/\ Consumes
            /\ current_section # None
            /\ IsLabelLine(Consumed)
            /\ TokenOf(Consumed) # <<>>
            /\ ~IsFloat(TokenOf(Consumed)))
           => (status' = "error" /\ error' = "ValueError") ]_vars

\* The parse stopped on a malformed number after a section had been entered.
C7_Witness ==
    /\ status = "error"
    /\ error = "ValueError"
    /\ current_section # None
    /\ Len(lines) >= 2

(***************************************************************************)
(* C8: unrecognized lines are ignored: the parser's state (section,        *)
(* pending test name, every mapping, outcome) after any input equals its   *)
(* state after the same input with the unrecognized lines left out.        *)
(***************************************************************************)
C8_UnrecognizedIgnored ==
    State = RunFrom(InitialState, SelectSeq(lines, IsRecognized))

\* A blank line and a comment sat between a header and its timing line.
C8_Witness ==
    /\ status = "returned"
    /\ Len(lines) = 4
    /\ IsHeaderLine(lines[1])
    /\ IsUnrecognized(lines[2])
    /\ IsUnrecognized(lines[3])
    /\ lines[2] # lines[3]
    /\ startup = "rust" :> 1000

(***************************************************************************)
(* C10: a timing line is recorded into correction.corrections only under   *)
(* the name of a "Test:" marker processed earlier; a line that targets     *)
(* correction.corrections before any such marker ends the parse with an    *)
(* error, and nothing is recorded under an empty or default name.          *)
(***************************************************************************)
C10_NoTestNoRecord ==
    /\ [](\A t \in DOMAIN CorrectionsOf(correction) :
             \E i \in 1..Len(lines) :
                 IsNamedTestLine(Strip(lines[i])) /\ Strip(lines[i])[4] = t)
    /\ [][ (/\ Consumes
            /\ current_section # None
            /\ IsLabelLine(Consumed)
            /\ (current_section = "correction" \/ ~IsAnchoredLine(Consumed))
            /\ LastNamedTest = 0)
           => (/\ status' = "error"
               /\ error' \in {"UnboundLocalError", "ValueError", "IndexError"}
               /\ CorrectionsOf(correction') = EmptyDict) ]_vars

\* The parse stopped because a timing line came before any Test: marker.
C10_Witness ==
    /\ status = "error"
    /\ error = "UnboundLocalError"
    /\ LastNamedTest = 0

(***************************************************************************)
(* Reports whose CORRECTION TIME section is a sequence of Test: blocks.    *)
(***************************************************************************)
\* The lines such a report is made of; blank lines may separate them.
BlockLines ==
    { <<>>,
      <<"CORRECTION", " ", "TIME">>,
      <<"Test", ":", " ", "t1">>,
      <<"Test", ":", " ", "t2">>,
      <<"Test", ":", " ", "t3">>,
      <<" ", " ", "Rust", ":", " ", "1000", " ", "us">>,
      <<" ", " ", "Rust", ":", " ", "500", " ", "us">>,
      <<" ", " ", "Python", ":", " ", "2000", " ", "us">>,
      <<" ", " ", "Python", ":", " ", "500", " ", "us">> }

NonBlank(raw) == Strip(raw) # <<>>
\* The non-blank lines, stripped.
Body(ls) == LET f == SelectSeq(ls, NonBlank) IN [i \in 1..Len(f) |-> Strip(f[i])]

IsTimingLine(line) ==
    IsAnchoredLine(line) /\ TokenOf(line) # <<>> /\ IsFloat(TokenOf(line))

\* ls begins a report made of the CORRECTION TIME header and Test: blocks with
\* pairwise distinct names, each holding one Rust: and one Python: line.
IsBlockPrefix(ls) ==
    LET f == Body(ls)
    IN  \A i \in 1..Len(f) :
            IF i = 1 THEN f[i] = <<"CORRECTION", " ", "TIME">>
            ELSE IF (i - 2) % 3 = 0
                 THEN /\ IsNamedTestLine(f[i])
                      /\ \A j \in 2..(i - 1) : IsNamedTestLine(f[j]) => f[j][4] # f[i][4]
            ELSE IF (i - 2) % 3 = 1 THEN IsTimingLine(f[i])
            ELSE IsTimingLine(f[i]) /\ LabelOf(f[i]) # LabelOf(f[i - 1])

\* The number of complete blocks, and whether the report ends on one.
BlockCount(ls) == (Len(Body(ls)) - 1) \div 3
IsBlockReport(ls) ==
    IsBlockPrefix(ls) /\ Len(Body(ls)) >= 1 /\ (Len(Body(ls)) - 1) % 3 = 0

\* What the blocks of the report say: test name -> label -> value.
BlocksOf(ls) ==
    LET f == Body(ls)
        name(b) == f[3 * b - 1][4]
        timing(b) == {f[3 * b], f[3 * b + 1]}
    IN  [t \in {name(b) : b \in 1..BlockCount(ls)} |->
            LET b == CHOOSE c \in 1..BlockCount(ls) : name(c) = t
            IN  [l \in {"rust", "python"} |->
                    Float(TokenOf(CHOOSE x \in timing(b) : LabelOf(x) = l))]]

ReadBlockNext ==
    \E raw \in BlockLines :
        /\ Len(lines) < MaxBlockLines
        /\ IsBlockPrefix(Append(lines, raw))
        /\ ReadLine(raw)

NextBlocks == ReadBlockNext \/ Return

SpecBlocks == Init /\ [][NextBlocks]_vars

StartupBarWidth == 30
CorrectionBarWidth == 25
MemoryBarWidth == 30

Labels == {"rust", "python"}
Has(d, k) == k \in DOMAIN d
Both(d) == Has(d, "rust") /\ Has(d, "python")
Values(d) == {d[k] : k \in DOMAIN d}

\* python / rust; the caller has excluded a zero divisor or fails on it.
Ratio(d) == (d["python"] * 10) \div d["rust"]

\* int(x): truncation toward zero of the quotient n / m, m > 0.
Trunc(n, m) == IF n >= 0 THEN n \div m ELSE 0 - ((0 - n) \div m)

\* bar_len = int(time / max_time * width) if max_time > 0 else 0
BarLenUnscaled(time, max_time, width) == IF max_time > 0 THEN Trunc(time, max_time) ELSE 0
BarLen(time, max_time, width) ==
    IF max_time > 0 THEN Trunc(time * width, max_time) ELSE 0

\* "█" * bar_len: a negative count gives the empty string.
Glyphs(bar_len) == IF bar_len < 0 THEN 0 ELSE bar_len

\* The glyph bars of one mapping: label -> number of glyphs written.
Bars(d, width) == [l \in DOMAIN d |-> Glyphs(BarLen(d[l], Max(Values(d)), width))]

\* if len(times) == 2 and times[0] > 0: the "N.x faster" / "N.x less memory" callout.
\* times[0] is the rust value when both are present.
Callout(d) == IF Both(d) /\ d["rust"] > 0 THEN Ratio(d) ELSE None

\* The startup axis of the radar chart divides without a guard.
StartupAxisFails(r) == Both(r.startup) /\ r.startup["rust"] = 0

\* The radar's categories and speedups, when the startup axis does not fail.
RadarAxes(r) ==
    LET c == CorrectionsOf(r.correction)
        S == IF Both(r.startup) THEN {"Startup"} ELSE {}
        T == {t \in DOMAIN c : Both(c[t]) /\ c[t]["rust"] > 0}
        M == IF Both(r.memory) /\ r.memory["rust"] > 0 THEN {"Memory"} ELSE {}
    IN  [a \in S \cup T \cup M |->
            IF a = "Startup" /\ a \in S THEN Ratio(r.startup)
            ELSE IF a = "Memory" /\ a \in M THEN Ratio(r.memory)
            ELSE Ratio(c[a])]

\* The Report parse_results returned.
Report == [startup |-> startup, correction |-> correction, memory |-> memory]

\* generate_matplotlib_charts: the files saved, in order, until an exception.
MatplotlibArtifacts(r) ==
    {"startup_time.png"}
    \cup (IF CorrectionsOf(r.correction) # EmptyDict THEN {"correction_time.png"} ELSE {})
    \cup (IF r.memory # EmptyDict THEN {"memory_usage.png"} ELSE {})
    \cup (IF ~StartupAxisFails(r) /\ RadarAxes(r) # EmptyDict
          THEN {"summary_radar.png"} ELSE {})

MatplotlibChart(r) ==
    [renderer |-> "matplotlib",
     startup_callout |-> IF r.startup # EmptyDict THEN Callout(r.startup) ELSE None,
     memory_callout |-> IF r.memory # EmptyDict THEN Callout(r.memory) ELSE None,
     axes |-> IF StartupAxisFails(r) THEN EmptyDict ELSE RadarAxes(r)]

GenerateMatplotlib ==
    /\ status = "returned"
    /\ artifacts' = MatplotlibArtifacts(Report)
    /\ chart' = MatplotlibChart(Report)
    /\ status' = IF StartupAxisFails(Report) THEN "render_error" ELSE "rendered"
    /\ error' = IF StartupAxisFails(Report) THEN "ZeroDivisionError" ELSE "none"
    /\ UNCHANGED parserVars

\* generate_text_charts: the summary lines of startup and memory divide
\* without a guard; the one of a test case is guarded.
TextStartupFails(r) == Both(r.startup) /\ r.startup["rust"] = 0
TextMemoryFails(r) == Both(r.memory) /\ r.memory["rust"] = 0
TextFails(r) == TextStartupFails(r) \/ TextMemoryFails(r)

TextChart(r) ==
    LET c == CorrectionsOf(r.correction)
        past == ~TextStartupFails(r)
    IN  [renderer |-> "text",
         startup_bars |-> Bars(r.startup, StartupBarWidth),
         startup_summary |->
             IF Both(r.startup) /\ past THEN Ratio(r.startup) ELSE None,
         correction_bars |->
             IF past THEN [t \in DOMAIN c |-> Bars(c[t], CorrectionBarWidth)]
             ELSE EmptyDict,
         correction_summary |->
             IF past
             THEN [t \in {u \in DOMAIN c : Both(c[u]) /\ c[u]["rust"] > 0} |-> Ratio(c[t])]
             ELSE EmptyDict,
         memory_bars |->
             IF past THEN Bars(r.memory, MemoryBarWidth) ELSE EmptyDict,
         memory_summary |->
             IF past /\ Both(r.memory) /\ ~TextMemoryFails(r)
             THEN Ratio(r.memory) ELSE None]

GenerateText ==
    /\ status = "returned"
    /\ artifacts' = {"charts.txt"}
    /\ chart' = TextChart(Report)
    /\ status' = IF TextFails(Report) THEN "render_error" ELSE "rendered"
    /\ error' = IF TextFails(Report) THEN "ZeroDivisionError" ELSE "none"
    /\ UNCHANGED parserVars

(***************************************************************************)
(* The Reports the renderers are checked on: every Report parse_results    *)
(* can return over these values and test names.                            *)
(***************************************************************************)
ReportValues == {0 - 1000, 0, 1000, 2000}
CorrectionValues == {0, 1000, 2000}
MemoryValues == {0 - 20, 0, 20, 40}
TestNames == {"t1", "t2"}

Dicts(K, V) == UNION {[D -> V] : D \in SUBSET K}
CorrectionDicts ==
    {EmptyDict} \cup
    {"corrections" :> c :
        c \in Dicts(TestNames, Dicts(Labels, CorrectionValues) \ {EmptyDict}) \ {EmptyDict}}

InitRender ==
    /\ lines = <<>>
    /\ current_section = None
    /\ current_test = Unbound
    /\ startup \in Dicts(Labels, ReportValues)
    /\ correction \in CorrectionDicts
    /\ memory \in Dicts(Labels, MemoryValues)
    /\ metadata = EmptyDict
    /\ status = "returned"
    /\ error = "none"
    /\ artifacts = {}
    /\ chart = NoChart

NextRender == GenerateMatplotlib \/ GenerateText

SpecRender == InitRender /\ [][NextRender]_vars

(***************************************************************************)
(* Vocabulary of the renderer properties.                                  *)
(***************************************************************************)
Drawn == chart.renderer = "matplotlib"
Written == chart.renderer = "text"
\* Some metric has a value of both implementations.
HasPair ==
    \/ Both(startup)
    \/ Both(memory)
    \/ \E t \in DOMAIN CorrectionsOf(correction) : Both(CorrectionsOf(correction)[t])
\* The ratio python/rust of d is not applicable.
NoRatio(d) == ~Both(d) \/ d["rust"] = 0

(***************************************************************************)
(* C1: generate_matplotlib_charts writes each of the four artifacts only   *)
(* if its data is present in the Report; a Report with only                *)
(* startup = {rust: 1000, python: 2000} gives exactly the startup_time     *)
(* artifact, and a Report with an empty startup mapping gives no           *)
(* startup_time artifact.                                                  *)
(***************************************************************************)
C1_ArtifactsOnlyWithData ==
    Drawn =>
        /\ ("startup_time.png" \in artifacts => startup # EmptyDict)
        /\ ("correction_time.png" \in artifacts => CorrectionsOf(correction) # EmptyDict)
        /\ ("memory_usage.png" \in artifacts => memory # EmptyDict)
        /\ ("summary_radar.png" \in artifacts => HasPair)
        /\ (/\ startup = ("rust" :> 1000 @@ "python" :> 2000)
            /\ correction = EmptyDict
            /\ memory = EmptyDict)
           => artifacts = {"startup_time.png"}

(***************************************************************************)
(* C2: in generate_matplotlib_charts every python/rust ratio (startup      *)
(* callout, memory callout, each radar axis) is skipped when the rust      *)
(* value is zero or a value is absent, so no division by zero is reached   *)
(* and the renderer does not fail.                                         *)
(***************************************************************************)
C2_RatiosGuarded ==
    Drawn =>
        /\ error # "ZeroDivisionError"
        /\ status = "rendered"
        /\ (NoRatio(startup) => chart.startup_callout = None /\ ~Has(chart.axes, "Startup"))
        /\ (NoRatio(memory) => chart.memory_callout = None /\ ~Has(chart.axes, "Memory"))
        /\ \A t \in DOMAIN CorrectionsOf(correction) :
               NoRatio(CorrectionsOf(correction)[t]) => ~Has(chart.axes, t)

(***************************************************************************)
(* C3: with memory = {rust: 0, python: 20} both renderers skip the memory  *)
(* ratio: no "less memory" callout, no memory radar axis, no "Rust uses    *)
(* N.x less memory" line, no division by zero, and both run to completion. *)
(* (Stated for Reports whose startup ratio is applicable or absent, so     *)
(* that only the memory ratio decides.)                                    *)
(***************************************************************************)
C3_ZeroRustMemorySkipped ==
    (/\ memory = ("rust" :> 0 @@ "python" :> 20)
     /\ ~(Both(startup) /\ startup["rust"] = 0))
    => /\ (Drawn => /\ chart.memory_callout = None
                    /\ ~Has(chart.axes, "Memory")
                    /\ status = "rendered")
       /\ (Written => /\ chart.memory_summary = None
                      /\ error # "ZeroDivisionError"
                      /\ status = "rendered")

(***************************************************************************)
(* C9 (as stated): in generate_text_charts, in every non-empty section     *)
(* the entry whose value is the section maximum gets the full bar (30      *)
(* glyphs for startup and memory, 25 for a test case), and every bar has   *)
(* between 0 and 30 (25) glyphs.                                           *)
(***************************************************************************)
FullBarAtMax(d, bars, width) ==
    \A l \in DOMAIN bars :
        /\ bars[l] \in 0..width
        /\ d[l] = Max(Values(d)) => bars[l] = width

C9_MaxEntryFullBar ==
    Written =>
        /\ FullBarAtMax(startup, chart.startup_bars, StartupBarWidth)
        /\ FullBarAtMax(memory, chart.memory_bars, MemoryBarWidth)
        /\ \A t \in DOMAIN chart.correction_bars :
               FullBarAtMax(CorrectionsOf(correction)[t], chart.correction_bars[t],
                            CorrectionBarWidth)

(***************************************************************************)
(* C9 (amended): in every section the text renderer writes whose maximum   *)
(* is greater than zero, the entry whose value is the section maximum      *)
(* gets the full bar (30 glyphs for startup and memory, 25 for a test      *)
(* case); in a section whose maximum is zero or negative every bar is      *)
(* empty; and every bar has between 0 and 30 (25) glyphs.                  *)
(***************************************************************************)
FullBarAtPositiveMax(d, bars, width) ==
    \A l \in DOMAIN bars :
        /\ bars[l] \in 0..width
        /\ (Max(Values(d)) > 0 /\ d[l] = Max(Values(d))) => bars[l] = width
        /\ Max(Values(d)) <= 0 => bars[l] = 0

C9_MaxEntryFullBarWhenPositive ==
    Written =>
        /\ DOMAIN chart.startup_bars = DOMAIN startup
        /\ FullBarAtPositiveMax(startup, chart.startup_bars, StartupBarWidth)
        /\ FullBarAtPositiveMax(memory, chart.memory_bars, MemoryBarWidth)
        /\ \A t \in DOMAIN chart.correction_bars :
               /\ DOMAIN chart.correction_bars[t] = DOMAIN CorrectionsOf(correction)[t]
               /\ FullBarAtPositiveMax(CorrectionsOf(correction)[t],
                                       chart.correction_bars[t], CorrectionBarWidth)

\* Full and partial bars were written in all three sections.
C9_Witness ==
    /\ Written
    /\ status = "rendered"
    /\ chart.startup_bars = ("rust" :> 15 @@ "python" :> 30)
    /\ chart.memory_bars = ("rust" :> 30 @@ "python" :> 15)
    /\ Has(chart.correction_bars, "t1")
    /\ chart.correction_bars["t1"] = ("rust" :> 12 @@ "python" :> 25)

====
